---------------------------- MODULE Spec2Model ----------------------------
(***************************************************************************)
(* The award-collection pipeline of the NSF award fetcher:                 *)
(*   search_orgs / to_df / __main__   (data_collection_2.py)               *)
(*   make_session / fetch_page / fetch_all   (data_collection_3.py)        *)
(*   fetch   (data_collection.py), fetch_nsf_awards (data_collection_3.py) *)
(*   the save block of __main__   (data_collection_3.py, _2_dup.py)        *)
(*                                                                         *)
(* One run is a single control thread.  The remote endpoint is the         *)
(* environment: every HTTP attempt is answered by a status and, for a 200, *)
(* by a body that is malformed, carries notifications, or carries a page   *)
(* of awards.                                                              *)
(***************************************************************************)
EXTENDS Integers, Sequences, FiniteSets, TLC

(* ---------------------------- program constants ------------------------ *)

\* rpp=25 in fetch_all, fetch and fetch_nsf_awards
RPP == 25

\* fetch_all(params, max_pages=200, ...)
MAX_PAGES == 200

\* Retry(total=5, read=5, connect=5, ...)
RETRY_TOTAL == 5

\* Retry(status_forcelist=(429, 500, 502, 503, 504))
STATUS_FORCELIST == {429, 500, 502, 503, 504}

\* Retry(...) keeps respect_retry_after_header=True: a response of one of
\* Retry.RETRY_AFTER_STATUS_CODES that carries a Retry-After header is
\* retried as well
RETRY_AFTER_STATUS_CODES == {413, 429, 503}

\* a connection-level failure (no HTTP status was received)
ConnFail == 0

\* the column order of to_df
TO_DF_COLUMNS ==
    << "id", "title", "awardeeName", "awardeeCity", "awardeeStateCode",
       "piFirstName", "piLastName", "date", "startDate", "expDate",
       "fundsObligatedAmt" >>

(* ------------------------------- bounds -------------------------------- *)

\* organizations in ORG_CANDIDATES (the list is configuration)
NumOrgs == 2

\* non-empty pages the bounded remote serves in one run
MaxHits == 2

\* distinct award identifiers the remote holds
NumIds == 2

\* organizations and awards of the scripted remote
ScenarioOrgs == 3

ScenarioAwards == 30

(* ----------------------------- the remote ------------------------------ *)

\* what the endpoint answers with besides 200, with or without a
\* Retry-After header: any failure when it is the unbounded one, one failure
\* of each kind when it is the bounded one
Failure(code, ra) == [code |-> code, ra |-> ra]

AllFailures ==
    {Failure(c, FALSE) : c \in STATUS_FORCELIST \cup {ConnFail, 400, 404, 413, 501}}
      \cup {Failure(c, TRUE) : c \in {404, 413, 503}}

FewFailures == {Failure(ConnFail, FALSE), Failure(503, FALSE), Failure(404, FALSE)}

\* the award at position i of the page served at offset o; b shifts the
\* identifiers, and the title stands for the field values, which depend on
\* the strategy that was asked
Award(s, o, i, b) ==
    [id |-> ((o - 1 + i - 1 + b) % NumIds) + 1, title |-> s]

Page(s, o, n, b) == [i \in 1..n |-> Award(s, o, i, b)]

\* the scripted remote holds ScenarioAwards awards, with identifiers 1, 2,
\* ..., for one strategy and none for the others: the page it serves at
\* offset o holds the awards o, o + 1, ..., at most RPP of them
ScriptedLength(hit, o) ==
    IF ~hit \/ o > ScenarioAwards THEN 0
    ELSE IF ScenarioAwards - (o - 1) < RPP THEN ScenarioAwards - (o - 1)
    ELSE RPP

ScriptedPage(s, o, n) == [i \in 1..n |-> [id |-> o - 1 + i, title |-> s]]


(* ----------------------------- QueryPlanner ---------------------------- *)

\* a planner that asks the keyword strategies before the exact ones
MainPlanFuzzyFirst(n) ==
    [k \in 1..(2 * n) |->
        [kind |-> IF k % 2 = 1 THEN "quoted" ELSE "unquoted",
         org |-> (k + 1) \div 2, window |-> "award"]]
      \o [k \in 1..n |-> [kind |-> "exact", org |-> k, window |-> "award"]]
      \o << [kind |-> "geo", org |-> 0, window |-> "award"] >>

\* search_orgs, steps 1-3: exact per organization, then quoted and unquoted
\* keyword per organization, then the geographic sweep
ExactStrategies(n) ==
    [k \in 1..n |-> [kind |-> "exact", org |-> k, window |-> "award"]]

FuzzyStrategies(n) ==
    [k \in 1..(2 * n) |->
        [kind |-> IF k % 2 = 1 THEN "quoted" ELSE "unquoted",
         org |-> (k + 1) \div 2, window |-> "award"]]

GeoStrategy == [kind |-> "geo", org |-> 0, window |-> "award"]

MainPlan(n) == ExactStrategies(n) \o FuzzyStrategies(n) \o << GeoStrategy >>

\* search_orgs, the optional step: exact per organization on the start-date
\* window
FallbackPlan(n) ==
    [k \in 1..n |-> [kind |-> "fallback", org |-> k, window |-> "start"]]

\* a search that runs the start-date strategies whatever was found
NeedFallbackAlways(rows) == TRUE

\* "if not all_rows": whether the start-date strategies are run
NeedFallback(rows) == rows = << >>

(* ------------------------------ Normalizer ----------------------------- *)

NaN == [t |-> "nan"]

\* pd.DataFrame(rows): the columns are the keys of the rows in first-seen
\* order; the model's rows carry id and title first, then the others
KnownKeys == << "id", "title", "agency", "fundsObligatedAmt" >>

FrameColumns(rows) ==
    SelectSeq(KnownKeys,
              LAMBDA c : \E i \in 1..Len(rows) : c \in DOMAIN rows[i])

\* a dedup that keeps the last row of each id (keep="last")
KeptPositionsLast(rows) ==
    {i \in 1..Len(rows) :
        \A j \in (i + 1)..Len(rows) : rows[j].id # rows[i].id}

\* a dedup that compares a row with the one before it only
KeptPositionsAdjacent(rows) ==
    {i \in 1..Len(rows) : i = 1 \/ rows[i - 1].id # rows[i].id}

\* positions kept by drop_duplicates(subset=["id"]): the first row of each id
KeptPositions(rows) ==
    {i \in 1..Len(rows) : \A j \in 1..(i - 1) : rows[j].id # rows[i].id}

\* the rows at the positions of a set, in list order
RowsAt(rows, keep) ==
    LET tagged == [i \in 1..Len(rows) |-> << i, rows[i] >>]
        sel == SelectSeq(tagged, LAMBDA p : p[1] \in keep)
    IN  [k \in 1..Len(sel) |-> sel[k][2]]

DropDuplicates(rows) == RowsAt(rows, KeptPositions(rows))

\* pd.to_numeric(..., errors="coerce") on one cell: a number stays, a string
\* of digits becomes its number, anything else becomes NaN
DigitValue(ch) ==
    CASE ch = "0" -> 0 [] ch = "1" -> 1 [] ch = "2" -> 2 [] ch = "3" -> 3
      [] ch = "4" -> 4 [] ch = "5" -> 5 [] ch = "6" -> 6 [] ch = "7" -> 7
      [] ch = "8" -> 8 [] ch = "9" -> 9 [] OTHER -> -1

RECURSIVE ParseDigits(_, _)
ParseDigits(chars, acc) ==
    IF chars = << >> THEN acc
    ELSE IF DigitValue(Head(chars)) < 0 THEN -1
    ELSE ParseDigits(Tail(chars), 10 * acc + DigitValue(Head(chars)))

\* a coercion that leaves what it cannot parse as it is (errors="ignore")
ToNumericIgnore(cell) ==
    IF cell.t = "num" THEN cell
    ELSE IF cell.t = "str" /\ cell.s # << >> /\ ParseDigits(cell.s, 0) >= 0
         THEN [t |-> "num", n |-> ParseDigits(cell.s, 0)]
    ELSE cell

ToNumeric(cell) ==
    IF cell.t = "num" THEN cell
    ELSE IF cell.t = "str" /\ cell.s # << >> /\ ParseDigits(cell.s, 0) >= 0
         THEN [t |-> "num", n |-> ParseDigits(cell.s, 0)]
    ELSE NaN

\* one row of the frame: every column of the frame, NaN where the row has
\* no such key
FrameRow(row, cols) ==
    [c \in {cols[k] : k \in 1..Len(cols)} |->
        IF c \in DOMAIN row THEN row[c] ELSE NaN]

CoerceMoney(row) ==
    IF "fundsObligatedAmt" \in DOMAIN row
    THEN [row EXCEPT !["fundsObligatedAmt"] = ToNumeric(@)]
    ELSE row

\* a to_df that returns the frame without selecting its columns
SelectedColumnsUnfiltered(cols) == cols

\* df[cols]: the columns of TO_DF_COLUMNS the frame has, in that order
SelectedColumns(cols) ==
    SelectSeq(TO_DF_COLUMNS,
              LAMBDA c : \E k \in 1..Len(cols) : cols[k] = c)

Project(row, cols) == [c \in {cols[k] : k \in 1..Len(cols)} |-> row[c]]

EmptyFrame == [cols |-> << >>, rows |-> << >>]

\* to_df
ToDf(rows) ==
    IF rows = << >> THEN EmptyFrame
    ELSE LET fc == FrameColumns(rows)
             kept == DropDuplicates(rows)
             cols == SelectedColumns(fc)
             out == IF cols = << >> THEN fc ELSE cols
         IN  [cols |-> out,
              rows |-> [k \in 1..Len(kept) |->
                          Project(CoerceMoney(FrameRow(kept[k], fc)), out)]]


(* -------------------------------- state -------------------------------- *)

VARIABLES
    norgs,      \* len(ORG_CANDIDATES); organization k is the k-th of the list
    plan,       \* search_orgs: the strategies of the loops entered so far
    si,         \* search_orgs: the strategy whose fetch_all call is running
    all_rows,   \* search_orgs: all_rows
    out,        \* fetch_all: out
    offset,     \* fetch_all: offset
    pages,      \* fetch_all: pages
    attempts,   \* SESSION.get: attempts made for the page being fetched
    last,       \* the answer to the latest attempt
    offsets,    \* the offsets fetch_all has requested for this strategy
    results,    \* how the fetch_all call of each strategy run so far ended
    pc,         \* "loop", "http", "to_df", "done"
    status,     \* what __main__ reported
    df,         \* __main__: df
    endless,    \* the remote never runs out of awards
    hitsLeft,   \* non-empty pages the bounded remote still serves
    file,       \* __main__: what the save block did and reported
    script      \* 0, or the organization whose awards a scripted remote holds

vars == << norgs, plan, si, all_rows, out, offset, pages, attempts, last,
           offsets, results, pc, status, df, endless, hitsLeft, file,
           script >>

NoAnswer == [code |-> -1, notes |-> 0, count |-> 0, ra |-> FALSE]

\* before the save block: nothing written, nothing reported
NoFile == [written |-> FALSE, rows |-> 0, report |-> "none"]

\* a 200 with its notifications and awards (-1: the body is not such JSON)
Answer(code, notes, count) ==
    [code |-> code, notes |-> notes, count |-> count, ra |-> FALSE]

\* a failure
Failed(f) == [code |-> f.code, notes |-> 0, count |-> 0, ra |-> f.ra]

\* the state in which search_orgs is about to run its first strategy
Start(n, e, h) ==
    /\ norgs = n
    /\ plan = MainPlan(n)
    /\ si = 1
    /\ all_rows = << >>
    /\ out = << >>
    /\ offset = 1
    /\ pages = 0
    /\ attempts = 0
    /\ last = NoAnswer
    /\ offsets = << >>
    /\ results = << >>
    /\ pc = "loop"
    /\ status = "running"
    /\ df = EmptyFrame
    /\ endless = e
    /\ hitsLeft = h
    /\ file = NoFile
    /\ script = 0

\* a run over any organization list against a remote with few awards
Init == \E n \in 0..NumOrgs : Start(n, FALSE, MaxHits)

(* ------------------------------ RetryPolicy ---------------------------- *)

\* a retry counter that gives up one attempt early
IsExhaustedEarly(k) == RETRY_TOTAL - k <= 0

\* urllib3 Retry: a connection failure is retried, and so is a status of the
\* forcelist or, with a Retry-After header, of RETRY_AFTER_STATUS_CODES
IsRetryable(f) ==
    \/ f.code \in STATUS_FORCELIST
    \/ f.code = ConnFail
    \/ f.ra /\ f.code \in RETRY_AFTER_STATUS_CODES

\* Retry.is_exhausted after the failure of attempt number k: total - k < 0
IsExhausted(k) == RETRY_TOTAL - k < 0

(* ------------------------------- __main__ ------------------------------ *)

\* a save block that writes the file whatever the frame holds
SaveResultsAlways(frame) ==
    [written |-> TRUE, rows |-> Len(frame.rows), report |-> "saved"]

\* the save block: df.to_csv and "Saved n rows" if not df.empty, else
\* "Nothing to save."
SaveResults(frame) ==
    IF frame.rows # << >>
    THEN [written |-> TRUE, rows |-> Len(frame.rows), report |-> "saved"]
    ELSE [written |-> FALSE, rows |-> 0, report |-> "nothing_to_save"]

\* a handler that still reports the rows gathered before the failure
RaiseKeepingRows(report) ==
    /\ pc' = "done"
    /\ status' = report
    /\ all_rows' = all_rows
    /\ out' = << >>
    /\ df' = ToDf(all_rows)
    /\ file' = SaveResults(ToDf(all_rows))
    /\ results' = Append(results, "failed")
    /\ UNCHANGED << norgs, plan, si, offset, pages, offsets, endless, script >>

\* a report that takes an empty table for an error
FinishEmptyIsError ==
    /\ pc = "to_df"
    /\ df' = ToDf(all_rows)
    /\ status' = IF ToDf(all_rows).rows = << >> THEN "unexpected_error"
                 ELSE "table"
    /\ file' = SaveResults(ToDf(all_rows))
    /\ pc' = "done"
    /\ UNCHANGED << norgs, plan, si, all_rows, out, offset, pages, attempts,
                    last, offsets, results, endless, script, hitsLeft >>

\* a failure that hands the pages got so far to the aggregator
RaiseAddingPages(report) ==
    /\ pc' = "done"
    /\ status' = report
    /\ all_rows' = all_rows \o out
    /\ out' = << >>
    /\ df' = EmptyFrame
    /\ file' = SaveResults(EmptyFrame)
    /\ results' = Append(results, "failed")
    /\ UNCHANGED << norgs, plan, si, offset, pages, offsets, endless, script >>

\* an exception leaves fetch_all, whose out is gone, and search_orgs, whose
\* all_rows is not extended and not returned, and is caught by one of the
\* handlers of __main__; the save block follows
Raise(report) ==
    /\ pc' = "done"
    /\ status' = report
    /\ all_rows' = all_rows
    /\ out' = << >>
    /\ df' = EmptyFrame
    /\ file' = SaveResults(EmptyFrame)
    /\ results' = Append(results, "failed")
    /\ UNCHANGED << norgs, plan, si, offset, pages, offsets, endless, script >>

\* a report that does not test df.empty
FinishWithoutEmptyTest ==
    /\ pc = "to_df"
    /\ df' = ToDf(all_rows)
    /\ status' = "table"
    /\ file' = SaveResults(ToDf(all_rows))
    /\ pc' = "done"
    /\ UNCHANGED << norgs, plan, si, all_rows, out, offset, pages, attempts,
                    last, offsets, results, endless, script, hitsLeft >>

\* df = to_df(rows), the report of __main__ and the save block
Finish ==
    /\ pc = "to_df"
    /\ df' = ToDf(all_rows)
    /\ status' = IF ToDf(all_rows).rows = << >> THEN "no_matches" ELSE "table"
    /\ file' = SaveResults(ToDf(all_rows))
    /\ pc' = "done"
    /\ UNCHANGED << norgs, plan, si, all_rows, out, offset, pages, attempts,
                    last, offsets, results, endless, script, hitsLeft >>

(* ------------------------------ search_orgs ---------------------------- *)

\* fetch_all returned res: all_rows += res, then the next strategy of the
\* loops, the start-date loop when nothing was found, or the return
Returned(res) ==
    LET rows == all_rows \o res
        more == IF si = Len(MainPlan(norgs)) /\ NeedFallback(rows)
                THEN plan \o FallbackPlan(norgs) ELSE plan
    IN  /\ all_rows' = rows
        /\ plan' = more
        /\ out' = << >>
        /\ offset' = 1
        /\ pages' = 0
        /\ results' = Append(results, "ok")
        /\ IF si < Len(more)
           THEN /\ si' = si + 1
                /\ offsets' = << >>
                /\ pc' = "loop"
           ELSE /\ si' = si
                /\ offsets' = offsets
                /\ pc' = "to_df"
        /\ UNCHANGED << norgs, status, df, endless, script, file >>

(* ------------------------- fetch_all / fetch_page ---------------------- *)

\* a ceiling test that lets one more page through
LoopEndsLate(n, pgs) == n < RPP \/ pgs > MAX_PAGES

\* a loop that takes a full page for the last one
LoopEndsOnFullPage(n, pgs) == n <= RPP \/ pgs >= MAX_PAGES

\* whether fetch_all stops after a non-empty page of n awards, the pages-th
LoopEnds(n, pgs) == n < RPP \/ pgs >= MAX_PAGES

\* a loop that advances by one award instead of one page
NextOffsetByOne(o) == o + 1

\* offset += 25
NextOffset(o) == o + RPP

\* the identifier shifts of the pages the remote may serve: the unbounded
\* remote serves one list of awards, page by page
Shifts == IF endless \/ script > 0 THEN {0} ELSE {0, 1}

\* the failures the remote may answer with; the scripted remote fails only
\* in ways the session retries
Failures ==
    IF script > 0 THEN {f \in FewFailures : IsRetryable(f)}
    ELSE IF endless THEN AllFailures
    ELSE FewFailures

\* whether the running strategy is the one the scripted remote has awards
\* for: the exact strategy of organization script
ScriptHit == plan[si].kind = "exact" /\ plan[si].org = script

\* the awards of a page of n the remote serves now
Served(n, b) ==
    IF script > 0 THEN ScriptedPage(si, offset, n)
    ELSE Page(si, offset, n, b)

\* the top of the while loop: p is built and fetch_page is called
BeginPage ==
    /\ pc = "loop"
    /\ pc' = "http"
    /\ attempts' = 0
    /\ last' = NoAnswer
    /\ offsets' = Append(offsets, offset)
    /\ UNCHANGED << norgs, plan, si, all_rows, out, offset, pages, results,
                    status, df, endless, script, file, hitsLeft >>

\* an attempt fails with a retryable status and the session tries again
HttpRetry ==
    /\ pc = "http"
    /\ \E f \in Failures :
          /\ IsRetryable(f)
          /\ ~IsExhausted(attempts + 1)
          /\ attempts' = attempts + 1
          /\ last' = Failed(f)
    /\ UNCHANGED << norgs, plan, si, all_rows, out, offset, pages, offsets,
                    results, pc, status, df, endless, script, file, hitsLeft >>

\* an attempt fails with a retryable status and no retry is left: the
\* session raises RetryError or ConnectionError ("except Exception")
HttpExhausted ==
    /\ pc = "http"
    /\ \E f \in Failures :
          /\ IsRetryable(f)
          /\ IsExhausted(attempts + 1)
          /\ attempts' = attempts + 1
          /\ last' = Failed(f)
    /\ hitsLeft' = hitsLeft
    /\ Raise("unexpected_error")

\* an attempt is answered by a status that is not retried:
\* raise_for_status raises HTTPError
HttpFatal ==
    /\ pc = "http"
    /\ \E f \in Failures :
          /\ ~IsRetryable(f)
          /\ attempts' = attempts + 1
          /\ last' = Failed(f)
    /\ hitsLeft' = hitsLeft
    /\ Raise("http_error")

\* a 200 whose body is not JSON: r.json() raises ("except Exception")
HttpMalformed ==
    /\ pc = "http"
    /\ attempts' = attempts + 1
    /\ last' = Answer(200, -1, -1)
    /\ hitsLeft' = hitsLeft
    /\ Raise("unexpected_error")

\* a fetch_all that does not look at the notifications
PageNotesIgnored ==
    /\ pc = "http"
    /\ \E k \in 1..2 : last' = Answer(200, k, 0)
    /\ attempts' = attempts + 1
    /\ hitsLeft' = hitsLeft
    /\ Returned(out)

\* a 200 that carries notifications: fetch_all raises RuntimeError
PageNotes ==
    /\ pc = "http"
    /\ \E k \in 1..2 : last' = Answer(200, k, 0)
    /\ attempts' = attempts + 1
    /\ hitsLeft' = hitsLeft
    /\ Raise("api_error")

\* a 200 with no award: break, and fetch_all returns out
PageEmpty ==
    /\ pc = "http"
    /\ script > 0 => ScriptedLength(ScriptHit, offset) = 0
    /\ attempts' = attempts + 1
    /\ last' = Answer(200, 0, 0)
    /\ hitsLeft' = hitsLeft
    /\ Returned(out)

\* the page lengths the remote may serve at this point
Lengths == IF script > 0 THEN {ScriptedLength(ScriptHit, offset)} \ {0}
           ELSE IF endless THEN {1, RPP - 1, RPP}
           ELSE IF hitsLeft > 0 THEN {1, RPP} ELSE {}

\* a 200 with awards after which the loop ends: fetch_all returns out
PageLast ==
    /\ pc = "http"
    /\ \E n \in Lengths, b \in Shifts :
          /\ LoopEnds(n, pages + 1)
          /\ last' = Answer(200, 0, n)
          /\ Returned(out \o Served(n, b))
    /\ attempts' = attempts + 1
    /\ hitsLeft' = IF endless \/ script > 0 THEN hitsLeft ELSE hitsLeft - 1

\* a 200 with a full page below the ceiling: offset += 25, sleep, loop
PageMore ==
    /\ pc = "http"
    /\ \E n \in Lengths, b \in Shifts :
          /\ ~LoopEnds(n, pages + 1)
          /\ last' = Answer(200, 0, n)
          /\ out' = out \o Served(n, b)
    /\ pages' = pages + 1
    /\ offset' = NextOffset(offset)
    /\ attempts' = attempts + 1
    /\ hitsLeft' = IF endless \/ script > 0 THEN hitsLeft ELSE hitsLeft - 1
    /\ pc' = "loop"
    /\ UNCHANGED << norgs, plan, si, all_rows, offsets, results, status, df,
                    endless, script, file >>

Next ==
    \/ BeginPage
    \/ HttpRetry
    \/ HttpExhausted
    \/ HttpFatal
    \/ HttpMalformed
    \/ PageNotes
    \/ PageEmpty
    \/ PageLast
    \/ PageMore
    \/ Finish

Spec == Init /\ [][Next]_vars

\* a run over the empty organization list, whose only strategy is the
\* geographic sweep, against a remote that never runs out of awards
InitDeep == Start(0, TRUE, 0)

SpecDeep == InitDeep /\ [][Next]_vars


\* a run over ScenarioOrgs organizations against the scripted remote, which
\* has awards for the exact strategy of one of them; an attempt may fail in
\* a way the session retries, as long as retries are left
InitScenario ==
    \E a \in 1..ScenarioOrgs :
       /\ norgs = ScenarioOrgs
       /\ plan = MainPlan(ScenarioOrgs)
       /\ si = 1
       /\ all_rows = << >>
       /\ out = << >>
       /\ offset = 1
       /\ pages = 0
       /\ attempts = 0
       /\ last = NoAnswer
       /\ offsets = << >>
       /\ results = << >>
       /\ pc = "loop"
       /\ status = "running"
       /\ df = EmptyFrame
       /\ endless = FALSE
       /\ hitsLeft = 0
       /\ file = NoFile
       /\ script = a

NextScenario ==
    \/ BeginPage
    \/ HttpRetry
    \/ PageEmpty
    \/ PageLast
    \/ PageMore
    \/ Finish

SpecScenario == InitScenario /\ [][NextScenario]_vars

(* ------------------------------ to_df alone ---------------------------- *)

\* longest list handed to to_df
MaxLen == 3

MoneyCells ==
    { [t |-> "str", s |-> << "1", "5", "0", "0", "0", "0" >>],
      [t |-> "num", n |-> 150000],
      [t |-> "str", s |-> << "a", "b", "c" >>], [t |-> "none"] }

RawRows ==
    {[id |-> i, title |-> t] : i \in 1..NumIds, t \in 1..2}
      \cup {[id |-> i, title |-> 3, fundsObligatedAmt |-> m] :
                i \in 1..NumIds, m \in MoneyCells}
      \cup {[id |-> i, title |-> 4, agency |-> "NSF"] : i \in 1..NumIds}

RawLists == UNION {[1..k -> RawRows] : k \in 0..MaxLen}

\* search_orgs has returned a list of raw awards
InitToDf ==
    /\ norgs = 0
    /\ plan = MainPlan(0)
    /\ si = 1
    /\ all_rows \in RawLists
    /\ out = << >>
    /\ offset = 1
    /\ pages = 0
    /\ attempts = 0
    /\ last = NoAnswer
    /\ offsets = << >>
    /\ results = << "ok" >>
    /\ pc = "to_df"
    /\ status = "running"
    /\ df = EmptyFrame
    /\ endless = FALSE
    /\ hitsLeft = 0
    /\ file = NoFile
    /\ script = 0

SpecToDf == InitToDf /\ [][Finish]_vars

(* ------------------------ fetch (data_collection.py) ------------------- *)

\* requests after which the model stops following the loop of fetch
MaxFetchRequests == 203

\* one fetch call: the unbounded remote, asked for the first strategy
InitFetch ==
    /\ norgs = 1
    /\ plan = MainPlan(1)
    /\ si = 1
    /\ all_rows = << >>
    /\ out = << >>
    /\ offset = 1
    /\ pages = 0
    /\ attempts = 0
    /\ last = NoAnswer
    /\ offsets = << >>
    /\ results = << >>
    /\ pc = "fetch"
    /\ status = "running"
    /\ df = EmptyFrame
    /\ endless = TRUE
    /\ hitsLeft = 0
    /\ file = NoFile
    /\ script = 0

FetchFrame ==
    UNCHANGED << norgs, plan, si, all_rows, pages, results, df, endless,
                 script, file,
                 hitsLeft >>

\* requests.get fails or raise_for_status raises: nothing catches it
FetchError ==
    /\ pc = "fetch"
    /\ Len(offsets) < MaxFetchRequests
    /\ \E f \in Failures : last' = Failed(f)
    /\ attempts' = 1
    /\ offsets' = Append(offsets, offset)
    /\ pc' = "done"
    /\ status' = "crashed"
    /\ UNCHANGED << out, offset >>
    /\ FetchFrame

\* the body has no "response" or no "award" key: break
FetchNoAwards ==
    /\ pc = "fetch"
    /\ Len(offsets) < MaxFetchRequests
    /\ last' = Answer(200, 0, -1)
    /\ attempts' = 1
    /\ offsets' = Append(offsets, offset)
    /\ pc' = "done"
    /\ status' = "returned"
    /\ UNCHANGED << out, offset >>
    /\ FetchFrame

\* a batch of awards: out.extend(batch), break on a short one, else
\* offset += 25
FetchBatch ==
    /\ pc = "fetch"
    /\ Len(offsets) < MaxFetchRequests
    /\ \E n \in {0} \cup Lengths :
          /\ last' = Answer(200, 0, n)
          /\ out' = out \o Page(si, offset, n, 0)
          /\ IF n < RPP
             THEN pc' = "done" /\ status' = "returned" /\ offset' = offset
             ELSE pc' = "fetch" /\ status' = status /\ offset' = offset + RPP
    /\ attempts' = 1
    /\ offsets' = Append(offsets, offset)
    /\ FetchFrame

NextFetch == FetchError \/ FetchNoAwards \/ FetchBatch

SpecFetch == InitFetch /\ [][NextFetch]_vars


(* ------------------- PI names (fetch_nsf_awards) ----------------------- *)

\* longest combined name
MaxNameLen == 5

None == [t |-> "none"]

Str(chars) == [t |-> "str", s |-> chars]

\* the truth value Python gives a field: None and "" are false
Truthy(v) == v.t = "str" /\ v.s # << >>

\* Python's "v or w"
OrElse(v, w) == IF Truthy(v) THEN v ELSE w

RECURSIVE SplitAt(_, _, _)
SplitAt(chars, cur, acc) ==
    IF chars = << >> THEN Append(acc, cur)
    ELSE IF Head(chars) = " " THEN SplitAt(Tail(chars), << >>, Append(acc, cur))
    ELSE SplitAt(Tail(chars), Append(cur, Head(chars)), acc)

\* a split at every single space: split(" ")
SplitOnSpace(chars) == SplitAt(chars, << >>, << >>)

RECURSIVE SplitWs(_, _, _)
SplitWs(chars, cur, acc) ==
    LET flushed == IF cur = << >> THEN acc ELSE Append(acc, cur)
    IN  IF chars = << >> THEN flushed
        ELSE IF Head(chars) = " " THEN SplitWs(Tail(chars), << >>, flushed)
        ELSE SplitWs(Tail(chars), Append(cur, Head(chars)), acc)

\* str.split(): the runs of non-blank characters
Split(chars) == SplitWs(chars, << >>, << >>)

\* " ".join(parts)
RECURSIVE Join(_)
Join(parts) ==
    IF parts = << >> THEN << >>
    ELSE IF Len(parts) = 1 THEN parts[1]
    ELSE parts[1] \o << " " >> \o Join(Tail(parts))

\* a derivation that takes both names from the combined one whenever it
\* looks at it
PiNamesOverwrite(a) ==
    LET pi_first == a.piFirstName
        pi_last == a.piLastName
    IN  IF (~Truthy(pi_first) \/ ~Truthy(pi_last)) /\ Truthy(a.pdPIName)
        THEN LET parts == Split(a.pdPIName.s)
             IN  IF Len(parts) >= 2
                 THEN [piFirstName |-> Str(parts[1]),
                       piLastName |-> Str(Join(Tail(parts)))]
                 ELSE [piFirstName |-> pi_first, piLastName |-> pi_last]
        ELSE [piFirstName |-> pi_first, piLastName |-> pi_last]

\* pi_first and pi_last of the row built from award a
PiNames(a) ==
    LET pi_first == a.piFirstName
        pi_last == a.piLastName
    IN  IF (~Truthy(pi_first) \/ ~Truthy(pi_last)) /\ Truthy(a.pdPIName)
        THEN LET parts == Split(a.pdPIName.s)
             IN  IF Len(parts) >= 2
                 THEN [piFirstName |-> OrElse(pi_first, Str(parts[1])),
                       piLastName |-> OrElse(pi_last, Str(Join(Tail(parts))))]
                 ELSE [piFirstName |-> pi_first, piLastName |-> pi_last]
        ELSE [piFirstName |-> pi_first, piLastName |-> pi_last]

NameChars == {"J", "D", " "}

CombinedNames ==
    {None} \cup {Str(c) : c \in UNION {[1..k -> NameChars] : k \in 0..MaxNameLen}}

\* the awards of a batch, as far as the PI names go: a.get(...) is None for
\* a key the award does not have
PiAwards ==
    {[piFirstName |-> f, piLastName |-> l, pdPIName |-> n] :
        f \in {None, Str(<< >>), Str(<< "X" >>)},
        l \in {None, Str(<< >>), Str(<< "Y", " ", "Z" >>)},
        n \in CombinedNames}

\* the loop over a batch is about to take award a
InitPi ==
    /\ norgs = 1
    /\ plan = MainPlan(1)
    /\ si = 1
    /\ all_rows \in {<< a >> : a \in PiAwards}
    /\ out = << >>
    /\ offset = 1
    /\ pages = 0
    /\ attempts = 1
    /\ last = Answer(200, 0, 1)
    /\ offsets = << 1 >>
    /\ results = << >>
    /\ pc = "derive"
    /\ status = "running"
    /\ df = EmptyFrame
    /\ endless = FALSE
    /\ hitsLeft = 0
    /\ file = NoFile
    /\ script = 0

\* rows.append({...}) for the award, with the names derived
AppendRow ==
    /\ pc = "derive"
    /\ out' = Append(out, PiNames(all_rows[1]))
    /\ pc' = "done"
    /\ status' = "returned"
    /\ UNCHANGED << norgs, plan, si, all_rows, offset, pages, attempts, last,
                    offsets, results, df, endless, script, file, hitsLeft >>

SpecPi == InitPi /\ [][AppendRow]_vars


(* ------------------------------ properties ----------------------------- *)

Errors == {"http_error", "api_error", "unexpected_error"}

LastResult == IF results = << >> THEN "none" ELSE results[Len(results)]

\* the strategies of steps 1-3
MainCount == 3 * norgs + 1

\* C1: no two rows of the table of to_df share an identifier, every
\* identifier of the input has a row, and the row of an identifier is the
\* first row of the input with that identifier
C1_DedupFirstWins ==
    pc = "done" =>
      /\ \A a, b \in 1..Len(df.rows) :
            a # b => df.rows[a].id # df.rows[b].id
      /\ \A i \in 1..Len(all_rows) :
            \E a \in 1..Len(df.rows) : df.rows[a].id = all_rows[i].id
      /\ \A a \in 1..Len(df.rows) :
            \E i \in 1..Len(all_rows) :
               /\ all_rows[i].id = df.rows[a].id
               /\ \A j \in 1..(i - 1) : all_rows[j].id # all_rows[i].id
               /\ all_rows[i].title = df.rows[a].title
               /\ "fundsObligatedAmt" \in DOMAIN all_rows[i] =>
                     df.rows[a].fundsObligatedAmt
                       = ToNumeric(all_rows[i].fundsObligatedAmt)

\* an identifier occurs twice with different fields and the table is built
C1_Witness ==
    /\ pc = "done"
    /\ Len(all_rows) = 3
    /\ Len(df.rows) = 2
    /\ all_rows[1].id = all_rows[3].id
    /\ all_rows[1].title # all_rows[3].title

C4_NotificationEndsStrategy ==
    (last.code = 200 /\ last.notes > 0) =>
      /\ pc = "done"
      /\ status = "api_error"
      /\ LastResult = "failed"
      /\ Len(results) = si
      /\ ~ENABLED Next

\* the notifications come with the second page, after a retry
C4_Witness ==
    /\ last.code = 200
    /\ last.notes > 0
    /\ Len(offsets) = 2
    /\ attempts = 2

\* C5 as stated, of fetch: a short page is the last request, and no more
\* than the ceiling of requests is issued
C5_Original ==
    /\ (last.code = 200 /\ last.count < RPP) => pc = "done"
    /\ Len(offsets) <= MAX_PAGES

\* C6: fetch_all issues at most 200 requests for a strategy and holds at
\* most 200 * 25 awards; the 200th full page ends the loop, which returns
\* the awards
C6_PageCeiling ==
    /\ Len(offsets) <= MAX_PAGES
    /\ pages <= MAX_PAGES
    /\ Len(out) <= MAX_PAGES * RPP
    /\ (Len(offsets) = MAX_PAGES /\ last = Answer(200, 0, RPP)) =>
          /\ pc \in {"to_df", "done"}
          /\ status \notin Errors
          /\ results = << "ok" >>
          /\ Len(all_rows) = MAX_PAGES * RPP

\* the run that got 200 full pages reports its table
C6_Witness ==
    /\ Len(offsets) = MAX_PAGES
    /\ last = Answer(200, 0, RPP)
    /\ pc = "done"
    /\ status = "table"
    /\ Len(all_rows) = MAX_PAGES * RPP

\* C7: a page fetch makes at most 6 attempts; after up to 5 retryable
\* failures it is still trying, and a 200 is taken whatever came before;
\* the 6th retryable failure is the transport error
C7_RetryBound ==
    LET retryable == last.code \in STATUS_FORCELIST \cup {ConnFail}
    IN  /\ attempts <= RETRY_TOTAL + 1
        /\ (retryable /\ attempts <= RETRY_TOTAL) => pc = "http"
        /\ (retryable /\ attempts > RETRY_TOTAL) =>
              pc = "done" /\ status = "unexpected_error"
        /\ (last.code = 200 /\ last.notes = 0) => status \notin Errors
        /\ (status = "unexpected_error" /\ last.code # 200) =>
              attempts = RETRY_TOTAL + 1

\* five retryable failures, then the page
C7_Witness ==
    /\ last = Answer(200, 0, 1)
    /\ attempts = RETRY_TOTAL + 1
    /\ pc = "loop"
    /\ all_rows # << >>

\* C8 as stated: a 4xx other than 429 is the last attempt: the HTTP error
\* is reported and nothing is requested after it
C8_Original ==
    (last.code \in 400..499 /\ last.code # 429) =>
      /\ pc = "done"
      /\ status = "http_error"
      /\ LastResult = "failed"
      /\ ~ENABLED Next

\* the declared place of a strategy among those of n organizations
Rank(s, n) ==
    CASE s.kind = "exact" -> s.org
      [] s.kind = "quoted" -> n + 2 * s.org - 1
      [] s.kind = "unquoted" -> n + 2 * s.org
      [] s.kind = "geo" -> 3 * n + 1
      [] s.kind = "fallback" -> 3 * n + 1 + s.org

\* C9: the strategies are run in the declared order, the rows of an earlier
\* strategy come before those of a later one, and the row the table keeps
\* for an identifier is the one of the earliest strategy that returned it
C9_StrategyOrder ==
    /\ \A p \in 1..Len(plan) : Rank(plan[p], norgs) = p
    /\ Len(results) \in {si - 1, si}
    /\ \A i \in 1..(Len(all_rows) - 1) :
          all_rows[i].title <= all_rows[i + 1].title
    /\ \A i \in 1..Len(out) : out[i].title = si
    /\ pc \in {"loop", "http"} =>
          \A i \in 1..Len(all_rows) : all_rows[i].title < si
    /\ (pc = "done" /\ status = "table") =>
          \A a \in 1..Len(df.rows) :
             \A i \in 1..Len(all_rows) :
                all_rows[i].id = df.rows[a].id =>
                   df.rows[a].title <= all_rows[i].title

\* two strategies of a full organization list returned the same identifier
C9_Witness ==
    /\ pc = "done"
    /\ status = "table"
    /\ norgs = NumOrgs
    /\ \E i, j \in 1..Len(all_rows) :
          /\ all_rows[i].id = all_rows[j].id
          /\ all_rows[i].title < all_rows[j].title
          /\ all_rows[i].title > 1

\* C10: a start-date strategy is run only after every strategy of steps 1-3
\* has returned and none of them returned a row; a search that ends has run
\* the start-date strategies exactly when steps 1-3 returned no row
C10_FallbackOnlyWhenEmpty ==
    /\ si <= MainCount => plan[si].window = "award"
    /\ si > MainCount =>
          /\ plan[si].window = "start"
          /\ \A k \in 1..MainCount : results[k] = "ok"
          /\ \A i \in 1..Len(all_rows) : all_rows[i].title > MainCount
    /\ (pc \in {"to_df", "done"} /\ status \notin Errors /\ norgs > 0) =>
          (Len(results) > MainCount <=>
             \A i \in 1..Len(all_rows) : all_rows[i].title > MainCount)

\* the start-date strategies were run and found awards
C10_Witness ==
    /\ pc = "done"
    /\ si > MainCount
    /\ status = "table"

\* the columns of the table of a run that found one award with an id and a
\* title
ReferenceColumns == ToDf(<< [id |-> 1, title |-> 1] >>).cols

\* C11 as stated: the table of every run has the same columns in the same
\* order, those of the reference run
C11_Original == pc = "done" => df.cols = ReferenceColumns

\* C11 as amended: the columns of the table are the columns of the fixed
\* list that some input row carries, in the order of the list, and every
\* row of the table has exactly these; the table of no rows has no column
C11_ColumnsFollowFields ==
    pc = "done" =>
      /\ all_rows = << >> => df.cols = << >>
      /\ df.cols = SelectSeq(TO_DF_COLUMNS,
                             LAMBDA c : \E i \in 1..Len(all_rows) :
                                           c \in DOMAIN all_rows[i])
      /\ \A a \in 1..Len(df.rows) :
            DOMAIN df.rows[a] = {df.cols[k] : k \in 1..Len(df.cols)}

\* rows with different fields, one of them outside the fixed list
C11_Witness ==
    /\ pc = "done"
    /\ df.cols = << "id", "title", "fundsObligatedAmt" >>
    /\ \E i \in 1..Len(all_rows) : "agency" \in DOMAIN all_rows[i]
    /\ \E i \in 1..Len(all_rows) : "fundsObligatedAmt" \notin DOMAIN all_rows[i]

\* the first row of the input with the identifier of a row of the table
FirstWithId(a) ==
    CHOOSE i \in 1..Len(all_rows) :
       /\ all_rows[i].id = df.rows[a].id
       /\ \A j \in 1..(i - 1) : all_rows[j].id # all_rows[i].id

\* C12: to_df ends with a table whatever the monetary cells are; the
\* column is there when some row carries the field, and its cell is the
\* number for a number or a numeric string ("150000" -> 150000) and null
\* for a non-numeric string, None or a row without the field
C12_MoneyCoercion ==
    pc = "done" =>
      /\ status \in {"table", "no_matches"}
      /\ (\E i \in 1..Len(all_rows) : "fundsObligatedAmt" \in DOMAIN all_rows[i])
            => \E k \in 1..Len(df.cols) : df.cols[k] = "fundsObligatedAmt"
      /\ \A a \in 1..Len(df.rows) :
            "fundsObligatedAmt" \in DOMAIN df.rows[a] =>
               LET v == df.rows[a].fundsObligatedAmt
                   r == all_rows[FirstWithId(a)]
               IN  IF "fundsObligatedAmt" \notin DOMAIN r THEN v = NaN
                   ELSE LET m == r.fundsObligatedAmt
                        IN  /\ m.t = "num" => v = m
                            /\ m = [t |-> "str",
                                    s |-> << "1", "5", "0", "0", "0", "0" >>]
                                  => v = [t |-> "num", n |-> 150000]
                            /\ m = [t |-> "str", s |-> << "a", "b", "c" >>]
                                  => v = NaN
                            /\ m.t = "none" => v = NaN

\* a table with the number of a numeric string and the null of a
\* non-numeric one, from a list that also has a row without the field
C12_Witness ==
    /\ pc = "done"
    /\ Len(all_rows) = 3
    /\ Len(df.rows) = 2
    /\ "fundsObligatedAmt" \in DOMAIN all_rows[1]
    /\ "fundsObligatedAmt" \in DOMAIN all_rows[2]
    /\ "fundsObligatedAmt" \notin DOMAIN all_rows[3]
    /\ all_rows[1].fundsObligatedAmt.t = "str"
    /\ all_rows[2].fundsObligatedAmt.t = "str"
    /\ df.rows[1].fundsObligatedAmt = [t |-> "num", n |-> 150000]
    /\ df.rows[2].fundsObligatedAmt = NaN

\* the positions at which a run of non-blank characters starts
TokenStarts(s) ==
    {i \in 1..Len(s) : s[i] # " " /\ (i = 1 \/ s[i - 1] = " ")}

\* the space-separated tokens of a string, in order
Tokens(s) ==
    LET st == TokenStarts(s)
        start(k) == CHOOSE i \in st : Cardinality({j \in st : j <= i}) = k
        end(i) == CHOOSE j \in i..Len(s) :
                     /\ \A m \in i..j : s[m] # " "
                     /\ (j = Len(s) \/ s[j + 1] = " ")
    IN  [k \in 1..Cardinality(st) |-> SubSeq(s, start(k), end(start(k)))]

\* tokens joined by one space each: no blank at either end, no two in a row
SingleSpaced(s) ==
    /\ s # << >> => s[1] # " " /\ s[Len(s)] # " "
    /\ \A i \in 1..(Len(s) - 1) : ~(s[i] = " " /\ s[i + 1] = " ")

\* the derived last name: the tokens after the first, joined by a space
IsRestOf(v, s) ==
    /\ v.t = "str"
    /\ Tokens(v.s) = Tail(Tokens(s))
    /\ SingleSpaced(v.s)

\* C13: for an award with no discrete PI name, a combined name of two or
\* more tokens gives its first token as the first name and the other
\* tokens, joined by a space, as the last name; with one token, or no
\* combined name, both names stay as they are, null
C13_DerivedFromCombined ==
    pc = "done" =>
      LET a == all_rows[1]
          r == out[1]
      IN  (~Truthy(a.piFirstName) /\ ~Truthy(a.piLastName)) =>
             IF Truthy(a.pdPIName)
                  /\ Cardinality(TokenStarts(a.pdPIName.s)) >= 2
             THEN /\ r.piFirstName = Str(Tokens(a.pdPIName.s)[1])
                  /\ IsRestOf(r.piLastName, a.pdPIName.s)
             ELSE /\ r.piFirstName = a.piFirstName
                  /\ r.piLastName = a.piLastName

\* "J  D D", with no discrete name, gives "J" and "D D"
C13_Witness ==
    /\ pc = "done"
    /\ all_rows[1] = [piFirstName |-> None, piLastName |-> None,
                      pdPIName |-> Str(<< "J", " ", " ", "D", "D" >>)]
    /\ out[1].piFirstName = Str(<< "J" >>)
    /\ out[1].piLastName = Str(<< "D", "D" >>)

\* C20: a discrete name the award has is the name of the row; when one of
\* the two is there and the combined name has two or more tokens, the
\* other is filled from the combined name; when both are there the
\* combined name is not used
C20_KeepsDiscreteNames ==
    pc = "done" =>
      LET a == all_rows[1]
          r == out[1]
          derivable == Truthy(a.pdPIName)
                         /\ Cardinality(TokenStarts(a.pdPIName.s)) >= 2
      IN  /\ Truthy(a.piFirstName) => r.piFirstName = a.piFirstName
          /\ Truthy(a.piLastName) => r.piLastName = a.piLastName
          /\ (Truthy(a.piFirstName) /\ ~Truthy(a.piLastName) /\ derivable)
                => IsRestOf(r.piLastName, a.pdPIName.s)
          /\ (~Truthy(a.piFirstName) /\ Truthy(a.piLastName) /\ derivable)
                => r.piFirstName = Str(Tokens(a.pdPIName.s)[1])

\* the award has a first name only, and the last name comes from "J D"
C20_Witness ==
    /\ pc = "done"
    /\ all_rows[1] = [piFirstName |-> Str(<< "X" >>), piLastName |-> None,
                      pdPIName |-> Str(<< "J", " ", "D" >>)]
    /\ out[1].piFirstName = Str(<< "X" >>)
    /\ out[1].piLastName = Str(<< "D" >>)

\* C14: the file is written exactly when the table of the run has a row,
\* with the rows of the table; a run with no row, or one that ended in an
\* error, writes nothing and reports that there is nothing to save; nothing
\* is written before the run ends
C14_FileIffRows ==
    /\ pc # "done" => file = NoFile
    /\ pc = "done" =>
          /\ file.written <=> df.rows # << >>
          /\ file.written => file.rows = Len(df.rows) /\ file.report = "saved"
          /\ ~file.written => file.report = "nothing_to_save"
          /\ status \in Errors \cup {"no_matches"} => ~file.written
          /\ status = "table" => file.written

\* a run that wrote its two awards
C14_Witness ==
    /\ pc = "done"
    /\ file.written
    /\ file.rows = 2
    /\ Len(all_rows) > 2

C16_NoMatchesIsNotAnError ==
    pc = "done" =>
      /\ ((\A k \in 1..Len(results) : results[k] = "ok") /\ all_rows = << >>)
            => /\ status = "no_matches"
               /\ Len(results) = MainCount + norgs
      /\ (\E k \in 1..Len(results) : results[k] = "failed")
            => status \in Errors
      /\ status = "no_matches"
            => /\ df.rows = << >>
               /\ \A k \in 1..Len(results) : results[k] = "ok"

\* every strategy of a full organization list ran and found nothing
C16_Witness ==
    /\ pc = "done"
    /\ status = "no_matches"
    /\ norgs = NumOrgs
    /\ Len(results) = MainCount + norgs
    /\ Len(plan) = Len(results)

\* C17: the dedup step applied to its own output gives the same rows in the
\* same order, and so does to_df applied to the rows of its table; however
\* often and wherever an identifier occurs in the list, the table has
\* exactly one row with it
C17_DedupIdempotent ==
    pc = "done" =>
      /\ DropDuplicates(DropDuplicates(all_rows)) = DropDuplicates(all_rows)
      /\ DropDuplicates(df.rows) = df.rows
      /\ ToDf(df.rows).rows = df.rows
      /\ Len(df.rows) = Len(DropDuplicates(all_rows))
      /\ \A i \in 1..Len(all_rows) :
            Cardinality({a \in 1..Len(df.rows) :
                           df.rows[a].id = all_rows[i].id}) = 1

\* a list of the greatest length that holds one identifier only
C17_Witness ==
    /\ pc = "done"
    /\ Len(all_rows) = MaxLen
    /\ \A i \in 1..Len(all_rows) : all_rows[i].id = all_rows[1].id
    /\ all_rows[1].title # all_rows[2].title
    /\ Len(df.rows) = 1

\* C18: the k-th request of fetch_all is at offset 1 + 25 * (k - 1); while
\* it loops, out is the awards of the full pages got so far, in offset
\* order; what it returns is the awards at the offsets asked, in order, up
\* to and including those of the first page of fewer than 25 (or of the
\* page at the ceiling), and a page of no award adds nothing
C18_OffsetsAndConcatenation ==
    /\ \A k \in 1..Len(offsets) : offsets[k] = 1 + RPP * (k - 1)
    /\ pc \in {"loop", "http"} =>
          /\ Len(offsets) = pages + (IF pc = "http" THEN 1 ELSE 0)
          /\ offset = 1 + RPP * pages
          /\ out = [i \in 1..(RPP * pages) |-> Award(si, 1, i, 0)]
    /\ (pc \in {"to_df", "done"} /\ status \notin Errors) =>
          /\ last.code = 200 /\ last.notes = 0
          /\ last.count < RPP \/ Len(offsets) = MAX_PAGES
          /\ all_rows = [i \in 1..(RPP * (Len(offsets) - 1) + last.count) |->
                           Award(si, 1, i, 0)]

\* two full pages and a short one
C18_Witness ==
    /\ pc = "done"
    /\ status = "table"
    /\ offsets = << 1, 1 + RPP, 1 + 2 * RPP >>
    /\ last = Answer(200, 0, RPP - 1)
    /\ Len(all_rows) = 3 * RPP - 1

\* C19: the step in which a page fetch of a strategy fails, on whichever
\* page, marks the strategy failed and leaves all_rows as it was when the
\* strategy started: the pages fetch_all had got are dropped with out, no
\* row of the strategy is in all_rows, and no table is made of it
C19_FailureAddsNothing ==
    [][(pc = "http" /\ pc' = "done") =>
         /\ results' = Append(results, "failed")
         /\ all_rows' = all_rows
         /\ out' = << >>
         /\ \A i \in 1..Len(all_rows') : all_rows'[i].title < si
         /\ df'.rows = << >>]_vars

\* the second page of a strategy carries a notification after the first
\* page was full and an earlier strategy had returned an award
C19_Witness ==
    /\ LastResult = "failed"
    /\ status = "api_error"
    /\ Len(offsets) = 2
    /\ all_rows # << >>
    /\ si > 1

=============================================================================
